---- MODULE Spec2Model ----
(***************************************************************************)
(* A model of audit_scraper: the filename sanitizer and Report.target_path *)
(* (models.py), the listing parser (parser.py), filter_reports and the     *)
(* concurrent download engine (scraper.py).                                *)
(*                                                                         *)
(* Text is a sequence of one-character strings.  Three specifications      *)
(* share the module: SpecSanitize applies sanitize_filename to names,      *)
(* SpecListing parses a listing and filters it, and Spec runs              *)
(* download_reports, with its pool of workers, and re-runs it (FairSpec    *)
(* is Spec with the fairness of the threads).                              *)
(***************************************************************************)
EXTENDS Integers, Sequences, FiniteSets, TLC

VARIABLES
    \* sanitize_filename applied once and twice
    name, out1, out2, sanPhase,
    \* the listing pipeline: parse_reports, then filter_reports
    options, rows, parsed, years, query, filtered, listPhase,
    \* download_reports: its arguments
    reports, max_workers, overwrite, dry_run,
    \* the file system: each file's content by its path, the directories
    files, dirs,
    \* the caller's thread: where it is, the futures as_completed has
    \* yielded, saved_paths, and what download_reports returned
    mainpc, yielded, saved_paths, retval,
    \* each worker's call of _download_single: where it is, its target_path,
    \* the chunks it has written, the requests it has sent, the error it raised
    wpc, wpath, wsent, fetched, wexc,
    \* which batch this is, and whether the batch before it raised
    batch, prevRaised

sanVars == <<name, out1, out2, sanPhase>>
listVars == <<options, rows, parsed, years, query, filtered, listPhase>>
argVars == <<reports, max_workers, overwrite, dry_run>>
fsVars == <<files, dirs>>
mainVars == <<mainpc, yielded, saved_paths, retval>>
workerVars == <<wpc, wpath, wsent, fetched, wexc>>
batchVars == <<batch, prevRaised>>
dlVars == <<argVars, fsVars, mainVars, workerVars, batchVars>>
vars == <<sanVars, listVars, dlVars>>

\* Python's None where a text may stand (a text has one character an entry),
\* and where a list of texts may stand
None == <<"None">>
NoneList == <<None>>
\* and where a path (a list of texts) or a list of paths may stand
NoPath == NoneList
NoPaths == <<NoPath>>

(***************************************************************************)
(* Text helpers                                                            *)
(***************************************************************************)

\* a run of n copies of character c
Rep(c, n) == [i \in 1..n |-> c]

LowerLetters ==
    <<"a", "b", "c", "d", "e", "f", "g", "h", "i", "j", "k", "l", "m",
      "n", "o", "p", "q", "r", "s", "t", "u", "v", "w", "x", "y", "z">>
UpperLetters ==
    <<"A", "B", "C", "D", "E", "F", "G", "H", "I", "J", "K", "L", "M",
      "N", "O", "P", "Q", "R", "S", "T", "U", "V", "W", "X", "Y", "Z">>
Digits == <<"0", "1", "2", "3", "4", "5", "6", "7", "8", "9">>

Range(f) == {f[i] : i \in DOMAIN f}

\* the character class [A-Za-z0-9._-]
SafeChars ==
    Range(LowerLetters) \cup Range(UpperLetters) \cup Range(Digits) \cup {".", "_", "-"}

\* characters outside ASCII; in UTF-8 each of these takes two bytes
TwoByteChars == {"U+00E9"}

\* str.encode("utf-8"): the number of bytes of one character, of a text
Utf8Width(c) == IF c \in TwoByteChars THEN 2 ELSE 1

\* the bytes of s[lo..hi], by halves (the recursion stays shallow)
RECURSIVE Utf8LenRange(_, _, _)
Utf8LenRange(s, lo, hi) ==
    IF lo > hi THEN 0
    ELSE IF lo = hi THEN Utf8Width(s[lo])
    ELSE LET mid == (lo + hi) \div 2
         IN  Utf8LenRange(s, lo, mid) + Utf8LenRange(s, mid + 1, hi)

Utf8Len(s) == Utf8LenRange(s, 1, Len(s))

\* the characters of s[lo..hi] at the positions keep marks, in order
RECURSIVE SelectRange(_, _, _, _)
SelectRange(s, keep, lo, hi) ==
    IF lo > hi THEN <<>>
    ELSE IF lo = hi THEN (IF keep[lo] THEN <<s[lo]>> ELSE <<>>)
    ELSE LET mid == (lo + hi) \div 2
         IN  SelectRange(s, keep, lo, mid) \o SelectRange(s, keep, mid + 1, hi)

SelectAt(s, keep) == SelectRange(s, keep, 1, Len(s))

\* str.strip(chars), str.rstrip(chars)
StripChars == {".", "_", " "}

RStrip(s, chars) ==
    LET last == {i \in 1..Len(s) : s[i] \notin chars}
    IN  IF last = {} THEN <<>>
        ELSE SubSeq(s, 1, CHOOSE i \in last : \A j \in last : j <= i)

Strip(s, chars) ==
    LET inner == {i \in 1..Len(s) : s[i] \notin chars}
    IN  IF inner = {} THEN <<>>
        ELSE SubSeq(s, CHOOSE i \in inner : \A j \in inner : i <= j,
                       CHOOSE i \in inner : \A j \in inner : j <= i)

(***************************************************************************)
(* models.py: the sanitizer                                                *)
(***************************************************************************)

MAX_FILENAME_BYTES == 200

\* pattern.sub("_", value) with pattern [^A-Za-z0-9._-]+ : every maximal run
\* of characters outside the class becomes one underscore
SanitizeTranslation(value) ==
    LET t == [i \in 1..Len(value) |->
                IF value[i] \in SafeChars THEN value[i] ELSE "_"]
        keep == [i \in 1..Len(value) |->
                   \/ value[i] \in SafeChars
                   \/ i = 1
                   \/ value[i - 1] \in SafeChars]
    IN  SelectAt(t, keep)

\* re.sub(r"_+", "_", s): a run of underscores becomes one
CollapseUnderscores(s) ==
    LET keep == [i \in 1..Len(s) |-> ~(s[i] = "_" /\ i > 1 /\ s[i - 1] = "_")]
    IN  SelectAt(s, keep)

\* re.sub(r"_+(\.)", r"\1", s): a run of underscores right before a dot goes
DropUnderscoresBeforeDot(s) ==
    LET runToDot(i) == \E j \in (i + 1)..Len(s) :
                          /\ s[j] = "."
                          /\ \A k \in i..(j - 1) : s[k] = "_"
        keep == [i \in 1..Len(s) |-> ~(s[i] = "_" /\ runToDot(i))]
    IN  SelectAt(s, keep)

FallbackName == <<"r", "e", "p", "o", "r", "t", ".", "p", "d", "f">>
FallbackStem == <<"r", "e", "p", "o", "r", "t">>
PdfExt == <<".", "p", "d", "f">>

\* sanitize_filename up to the length check: translate, collapse, drop the
\* underscores before a dot, strip, fall back when nothing is left
Normalized(n) ==
    LET s == Strip(DropUnderscoresBeforeDot(
                     CollapseUnderscores(SanitizeTranslation(n))), StripChars)
    IN  IF s = <<>> THEN FallbackName ELSE s

\* os.path.splitext (posixpath): the extension starts at the last dot that
\* follows the last "/" and has a character other than a dot before it in
\* the file name; otherwise there is no extension
SplitExt(p) ==
    LET seps == {i \in 1..Len(p) : p[i] = "/"}
        dots == {i \in 1..Len(p) : p[i] = "."}
        sepIndex == IF seps = {} THEN 0 ELSE CHOOSE i \in seps : \A j \in seps : j <= i
        dotIndex == IF dots = {} THEN 0 ELSE CHOOSE i \in dots : \A j \in dots : j <= i
    IN  IF /\ dotIndex > sepIndex
           /\ \E k \in (sepIndex + 1)..(dotIndex - 1) : p[k] # "."
        THEN [stem |-> SubSeq(p, 1, dotIndex - 1), ext |-> SubSeq(p, dotIndex, Len(p))]
        ELSE [stem |-> p, ext |-> <<>>]

\* stem.encode("utf-8")[:available].decode("utf-8", "ignore"): the longest
\* prefix of whole characters that fits in the first `available` bytes
DecodeTruncated(stem, available) ==
    LET fits == {k \in 0..Len(stem) : Utf8Len(SubSeq(stem, 1, k)) <= available}
    IN  SubSeq(stem, 1, CHOOSE k \in fits : \A j \in fits : j <= k)

\* a plausible slip: the truncated stem is not stripped again
TruncatedStemUnstripped(stem, available) ==
    LET t == DecodeTruncated(stem, available)
    IN  IF t = <<>> THEN FallbackStem ELSE t

\* the truncated stem: cut to the bytes available, stripped on the right,
\* "report" when nothing is left
TruncatedStem(stem, available) ==
    LET t == RStrip(DecodeTruncated(stem, available), StripChars)
    IN  IF t = <<>> THEN FallbackStem ELSE t

Max(a, b) == IF a >= b THEN a ELSE b

sanitize_filename(n) ==
    LET sanitized == Normalized(n)
    IN  IF Utf8Len(sanitized) <= MAX_FILENAME_BYTES THEN sanitized
        ELSE LET parts == SplitExt(sanitized)
                 ext == IF parts.ext = <<>> THEN PdfExt ELSE parts.ext
                 available == Max(1, MAX_FILENAME_BYTES - Utf8Len(ext))
             IN  TruncatedStem(parts.stem, available) \o ext

UnknownYear == <<"U", "n", "k", "n", "o", "w", "n", "-", "Y", "e", "a", "r">>

sanitize_directory_name(n) ==
    LET s == Strip(SanitizeTranslation(n), StripChars)
    IN  IF s = <<>> THEN UnknownYear ELSE s

(***************************************************************************)
(* models.py: Report.target_path                                           *)
(***************************************************************************)

\* Python's int has no width.  A serial is held as its decimal numeral: the
\* digits without leading zeros, after "-" when it is negative.
IsNegative(n) == n[1] = "-"

\* f"{serial:04d}": zero-padded to a width of four, the sign counted
Format04d(n) ==
    LET sign == IF IsNegative(n) THEN <<"-">> ELSE <<>>
        digits == IF IsNegative(n) THEN Tail(n) ELSE n
    IN  sign \o Rep("0", Max(0, 4 - Len(sign) - Len(digits))) \o digits

\* Python truthiness of an optional text, of an optional list of texts:
\* neither None nor empty
Truthy(x) == x # None /\ x # <<>>
TruthyList(x) == x # NoneList /\ x # <<>>

\* sanitize_filename(f"{self.serial:04d}_{self.title}.pdf")
TargetName(report) ==
    sanitize_filename(Format04d(report.serial) \o <<"_">> \o report.title \o PdfExt)

\* a path is the sequence of its components
target_path(report, base_dir) ==
    LET directory == IF Truthy(report.year_label)
                     THEN Append(base_dir, sanitize_directory_name(report.year_label))
                     ELSE base_dir
    IN  Append(directory, TargetName(report))

(***************************************************************************)
(* parser.py: the listing parser.  A row is the sequence of its td cells;  *)
(* a cell holds its text fragments (the strings of its descendants, in     *)
(* document order) and the href of each anchor in it (None: no attribute). *)
(* An option of the year selector holds its value attribute and its text.  *)
(* The optional boolean is_active is one of "True", "False" and "None".    *)
(***************************************************************************)

Whitespace == {" "}

RECURSIVE JoinTexts(_, _)
JoinTexts(texts, sep) ==
    IF texts = <<>> THEN <<>>
    ELSE IF Len(texts) = 1 THEN texts[1]
    ELSE texts[1] \o sep \o JoinTexts(Tail(texts), sep)

NonEmptyText(t) == t # <<>>

\* Tag.get_text(sep, strip=True): every string stripped, the empty ones
\* left out, the rest joined by sep
GetText(cell, sep) ==
    JoinTexts(SelectSeq([i \in 1..Len(cell.frags) |-> Strip(cell.frags[i], Whitespace)],
                        NonEmptyText), sep)

\* int(text) accepts, around optional blanks, an optional sign and digits
\* with single underscores between them; anything else is a ValueError
IsIntText(text) ==
    LET t == Strip(text, Whitespace)
        body == IF t # <<>> /\ t[1] \in {"+", "-"} THEN Tail(t) ELSE t
    IN  /\ body # <<>>
        /\ \A i \in 1..Len(body) : body[i] \in Range(Digits) \cup {"_"}
        /\ body[1] # "_" /\ body[Len(body)] # "_"
        /\ \A i \in 1..(Len(body) - 1) : ~(body[i] = "_" /\ body[i + 1] = "_")

IsDigit(c) == c \in Range(Digits)

\* the numeral of the number that the digits denote
Numeral(digits) ==
    LET nonzero == {i \in 1..Len(digits) : digits[i] # "0"}
    IN  IF nonzero = {} THEN <<"0">>
        ELSE SubSeq(digits, CHOOSE i \in nonzero : \A j \in nonzero : i <= j, Len(digits))

\* int(text), of a text that IsIntText
IntValue(text) ==
    LET t == Strip(text, Whitespace)
        n == Numeral(SelectSeq(t, IsDigit))
    IN  IF t[1] = "-" /\ n # <<"0">> THEN <<"-">> \o n ELSE n

\* str.lower()
LowerChar(c) ==
    IF c \in Range(UpperLetters)
    THEN LowerLetters[CHOOSE i \in 1..26 : UpperLetters[i] = c]
    ELSE c

Lower(s) == [i \in 1..Len(s) |-> LowerChar(s[i])]

TrueText == <<"t", "r", "u", "e">>
FalseText == <<"f", "a", "l", "s", "e">>

\* _extract_year_mapping: options without a value or a text are skipped and
\* the first option of a code wins (setdefault)
RECURSIVE _extract_year_mapping(_)
_extract_year_mapping(opts) ==
    IF opts = <<>> THEN <<>>
    ELSE LET mapping == _extract_year_mapping(SubSeq(opts, 1, Len(opts) - 1))
             option == opts[Len(opts)]
             text == Strip(option.text, Whitespace)
             key == Strip(option.value, Whitespace)
         IN  IF ~Truthy(option.value) \/ text = <<>> THEN mapping
             ELSE IF \E i \in 1..Len(mapping) : mapping[i].key = key THEN mapping
             ELSE Append(mapping, [key |-> key, text |-> text])

\* dict.get(key): the text mapped to key, None when there is none
MapGet(mapping, key) ==
    IF \E i \in 1..Len(mapping) : mapping[i].key = key
    THEN mapping[CHOOSE i \in 1..Len(mapping) : mapping[i].key = key].text
    ELSE None

\* _safe_cell_text(cells, index), index counted from 0
_safe_cell_text(cells, index) ==
    IF index + 1 <= Len(cells) THEN GetText(cells[index + 1], <<>>) ELSE <<>>

\* `value or None`
OrNone(text) == IF text = <<>> THEN None ELSE text

\* the None that _parse_row returns, as a record like a Report
NoReport == [dropped |-> TRUE]

\* _parse_row: the Report of a row, None for a row that is dropped
_parse_row(cells, year_map) ==
    IF Len(cells) < 4 THEN NoReport
    ELSE IF ~IsIntText(GetText(cells[1], <<>>)) THEN NoReport
    ELSE LET anchors == cells[4].anchors
             href == IF anchors # <<>> THEN anchors[1] ELSE None
             year_code == _safe_cell_text(cells, 4)
             status_text == _safe_cell_text(cells, 7)
             lowered == Lower(status_text)
         IN  IF ~Truthy(href) THEN NoReport
             ELSE [serial |-> IntValue(GetText(cells[1], <<>>)),
                   title |-> GetText(cells[2], <<" ">>),
                   date_text |-> GetText(cells[3], <<>>),
                   download_url |-> href,
                   year_code |-> OrNone(year_code),
                   year_label |-> IF year_code # <<>>
                                  THEN MapGet(year_map, Strip(year_code, Whitespace))
                                  ELSE None,
                   report_code |-> OrNone(_safe_cell_text(cells, 5)),
                   type_code |-> OrNone(_safe_cell_text(cells, 6)),
                   is_active |-> IF status_text # <<>> /\ lowered \in {TrueText, FalseText}
                                 THEN (IF lowered = TrueText THEN "True" ELSE "False")
                                 ELSE "None"]

\* a plausible slip: the loop stops at the first row that is dropped
RECURSIVE ParseRowsUntilInvalid(_, _)
ParseRowsUntilInvalid(trs, year_map) ==
    IF trs = <<>> THEN <<>>
    ELSE LET report == _parse_row(trs[1], year_map)
         IN  IF report = NoReport THEN <<>>
             ELSE <<report>> \o ParseRowsUntilInvalid(Tail(trs), year_map)

\* the loop of parse_reports: a row's Report is appended unless it is None
RECURSIVE ParseRows(_, _)
ParseRows(trs, year_map) ==
    IF trs = <<>> THEN <<>>
    ELSE LET report == _parse_row(trs[1], year_map)
         IN  (IF report = NoReport THEN <<>> ELSE <<report>>) \o ParseRows(Tail(trs), year_map)

parse_reports(opts, trs) == ParseRows(trs, _extract_year_mapping(opts))

(***************************************************************************)
(* scraper.py: filter_reports                                              *)
(***************************************************************************)

\* year_filter(report): filter(None, [year_code, year_label]) keeps the
\* truthy ones; their lower-cased set must meet the lower-cased tokens
year_filter(report, year_tokens) ==
    LET normalized == {Lower(year_tokens[i]) : i \in 1..Len(year_tokens)}
        candidates == {v \in {report.year_code, report.year_label} : Truthy(v)}
        normalized_values == {Lower(v) : v \in candidates}
    IN  normalized_values \cap normalized # {}

\* `needle in text`
Contains(text, needle) ==
    \E i \in 0..(Len(text) - Len(needle)) : SubSeq(text, i + 1, i + Len(needle)) = needle

\* a plausible slip: the title is not lower-cased
QueryFilterCaseSensitive(report, q) == Contains(report.title, Lower(q))

\* query_filter(report)
query_filter(report, q) == Contains(Lower(report.title), Lower(q))

\* one turn of the loop: a filter that is set and fails skips the report
Passes(report, year_tokens, q) ==
    /\ TruthyList(year_tokens) => year_filter(report, year_tokens)
    /\ Truthy(q) => query_filter(report, q)

RECURSIVE filter_reports(_, _, _)
filter_reports(rs, year_tokens, q) ==
    IF rs = <<>> THEN <<>>
    ELSE (IF Passes(rs[1], year_tokens, q) THEN <<rs[1]>> ELSE <<>>)
         \o filter_reports(Tail(rs), year_tokens, q)

(***************************************************************************)
(* SpecListing: a listing is parsed, then the Reports are filtered         *)
(***************************************************************************)

\* the most rows a listing holds
MaxRows == 2

Href1 == <<"/", "r", "1">>
Href2 == <<"/", "r", "2">>

\* the serial cell's text: two integers and a text that is none
SerialTexts == {<<"1">>, <<"-", "0", "_", "2", " ">>, <<"x">>}
\* the anchors of the link cell, each by its href: none; one without href;
\* one with href; one with an empty href followed by one with href
AnchorLists == {<<>>, <<None>>, <<Href1>>, <<<<>>, Href2>>}
\* how many cells a row has: too few, the four needed, all eight
CellCounts == {3, 4, 8}

Cell(frags, anchors) == [frags |-> frags, anchors |-> anchors]

\* the cells that go with a serial text: title, year code and status
TitleFrags(st) ==
    IF st = <<"1">> THEN << <<"A", "b", " ">>, <<"c">> >>
    ELSE IF st = <<"x">> THEN << <<"z">> >>
    ELSE << <<"b", "A">> >>
YearCodeText(st) ==
    IF st = <<"1">> THEN <<"y", "2">> ELSE IF st = <<"x">> THEN <<>> ELSE <<"y", "1">>
StatusText(st) ==
    IF st = <<"1">> THEN <<"T", "r", "u", "e">> ELSE <<"n", "o">>

MkRow(st, anchors, n) ==
    SubSeq(<< Cell(<<st>>, <<>>),
              Cell(TitleFrags(st), <<>>),
              Cell(<< <<"J", "a", "n">> >>, <<>>),
              Cell(<< <<"D">> >>, anchors),
              Cell(<<YearCodeText(st)>>, <<>>),
              Cell(<< <<"a", "r">> >>, <<>>),
              Cell(<< <<"7">> >>, <<>>),
              Cell(<<StatusText(st)>>, <<>>) >>, 1, n)

RowSet == {MkRow(st, an, n) : st \in SerialTexts, an \in AnchorLists, n \in CellCounts}

RECURSIVE SeqsUpTo(_, _)
SeqsUpTo(S, n) ==
    IF n = 0 THEN {<<>>}
    ELSE LET shorter == SeqsUpTo(S, n - 1)
         IN  shorter \cup {Append(t, x) : t \in {u \in shorter : Len(u) = n - 1}, x \in S}

Label09 == <<"0", "9">>
Label10 == <<"1", "0", "-", "X">>

\* two year selectors: the first maps y1 and y2; the second repeats y2 and
\* has no y1, and its first option has no value attribute
OptionLists ==
    { << [value |-> <<>>, text |-> <<" ", "S">>],
         [value |-> <<"y", "1">>, text |-> Label09],
         [value |-> <<"y", "2">>, text |-> Label10] >>,
      << [value |-> None, text |-> <<"n">>],
         [value |-> <<"y", "2", " ">>, text |-> Label10],
         [value |-> <<"y", "2">>, text |-> Label09] >> }

\* the --year tokens (None: no filter) and the --query texts
YearFilters == {NoneList, << <<"Y", "2">> >>, << <<"z">>, <<"y", "1">> >>, << <<"1", "0", "-", "x">> >>}
Queries == {None, <<>>, <<"A", "B">>, <<"b", " ">>}

\* the variables of the specifications that are not running stay as here
DlIdle ==
    /\ reports = <<>> /\ max_workers = 1 /\ overwrite = FALSE /\ dry_run = FALSE
    /\ files = <<>> /\ dirs = {}
    /\ mainpc = "idle" /\ yielded = {} /\ saved_paths = <<>> /\ retval = NoPaths
    /\ wpc = <<>> /\ wpath = <<>> /\ wsent = <<>> /\ fetched = <<>> /\ wexc = <<>>
    /\ batch = "idle" /\ prevRaised = FALSE

SanIdle == name = <<>> /\ out1 = None /\ out2 = None /\ sanPhase = "idle"

InitListing ==
    /\ options \in OptionLists
    /\ rows \in SeqsUpTo(RowSet, MaxRows)
    /\ parsed = <<>>
    /\ years = NoneList
    /\ query = None
    /\ filtered = <<>>
    /\ listPhase = "input"
    /\ SanIdle
    /\ DlIdle

\* collect_reports(html): parse_reports on the listing
CollectReports ==
    /\ listPhase = "input"
    /\ parsed' = parse_reports(options, rows)
    /\ listPhase' = "parsed"
    /\ UNCHANGED <<options, rows, years, query, filtered, sanVars, dlVars>>

\* filter_reports(reports, years=..., query=...) on the parsed Reports
FilterReports ==
    /\ listPhase = "parsed"
    /\ \E ys \in YearFilters, q \in Queries :
          /\ years' = ys
          /\ query' = q
          /\ filtered' = filter_reports(parsed, ys, q)
    /\ listPhase' = "filtered"
    /\ UNCHANGED <<options, rows, parsed, sanVars, dlVars>>

NextListing == CollectReports \/ FilterReports

SpecListing == InitListing /\ [][NextListing]_vars

(***************************************************************************)
(* SpecSanitize: sanitize_filename applied to a name, then to its result   *)
(***************************************************************************)

\* the longest name tried exhaustively
MaxLen == 3
\* how far around MAX_FILENAME_BYTES the long names' lengths range
Slack == 2

NameChars == {"a", ".", "_", " ", "/", "U+00E9"}

RECURSIVE TextsUpTo(_, _)
TextsUpTo(chars, n) ==
    IF n = 0 THEN {<<>>}
    ELSE LET shorter == TextsUpTo(chars, n - 1)
         IN  shorter \cup {Append(t, c) : t \in {u \in shorter : Len(u) = n - 1}, c \in chars}

ShortNames == TextsUpTo(NameChars, MaxLen)

\* names about MAX_FILENAME_BYTES long: a short head, a long run of one
\* character, a short tail
LongHeads == {<<>>, <<" ">>, <<"a", ".">>, <<"a", "/", ".">>}
LongRuns == {"a", "U+00E9", "."}
LongTails ==
    {<<>>, <<".", "b">>, PdfExt, <<"?", ".", "p", "d", "f", " ">>,
     <<"/">> \o Rep("b", 8) \o PdfExt}
LongLens == (MAX_FILENAME_BYTES - 5 - Slack)..(MAX_FILENAME_BYTES + Slack)

LongNames ==
    {h \o Rep(c, n) \o t : h \in LongHeads, c \in LongRuns, n \in LongLens, t \in LongTails}

Names == ShortNames \cup LongNames

ListIdle ==
    /\ options = <<>> /\ rows = <<>> /\ parsed = <<>> /\ years = NoneList
    /\ query = None /\ filtered = <<>> /\ listPhase = "idle"

InitSanitize ==
    /\ name \in Names
    /\ out1 = None
    /\ out2 = None
    /\ sanPhase = "input"
    /\ ListIdle
    /\ DlIdle

SanitizeOnce ==
    /\ sanPhase = "input"
    /\ out1' = sanitize_filename(name)
    /\ sanPhase' = "once"
    /\ UNCHANGED <<name, out2, listVars, dlVars>>

SanitizeAgain ==
    /\ sanPhase = "once"
    /\ out2' = sanitize_filename(out1)
    /\ sanPhase' = "twice"
    /\ UNCHANGED <<name, out1, listVars, dlVars>>

NextSanitize == SanitizeOnce \/ SanitizeAgain

SpecSanitize == InitSanitize /\ [][NextSanitize]_vars

(***************************************************************************)
(* Spec: download_reports on a selection of a listing's Reports, and one   *)
(* re-run of it on the same output directory.  The file system maps each   *)
(* file's path to its content, the sequence of the chunks written to it.   *)
(***************************************************************************)

\* the most Reports in a batch, the largest pool, the chunks of a body
MaxReports == 2
MaxWorkers == 2
BodyChunks == 1

\* a title too long for a file name, and a short one
TitleLong == Rep("a", MAX_FILENAME_BYTES) \o <<"/", "b">>
TitleShort == <<"c", " ", "d">>

Report(serial, title, href, label) ==
    [serial |-> serial, title |-> title, download_url |-> href, year_label |-> label]

\* two serials of 197 digits that differ in the last
SerialHuge0 == <<"1">> \o Rep("0", MAX_FILENAME_BYTES - 4)
SerialHuge1 == <<"1">> \o Rep("0", MAX_FILENAME_BYTES - 5) \o <<"1">>

\* a listing's Reports, serials unique: one of a year, its title too long
\* for a file name, and two of no year and one title whose serials are
\* longer than a file name's stem
ListingReports ==
    << Report(<<"1">>, TitleLong, Href1, Label10),
       Report(SerialHuge0, TitleShort, Href2, None),
       Report(SerialHuge1, TitleShort, <<"/", "r", "3">>, None) >>

\* what filter_reports and --limit select: the Reports at some positions of
\* the listing, in its order
Selection(positions) ==
    SelectAt(ListingReports, [i \in 1..Len(ListingReports) |-> i \in positions])

Selections ==
    {Selection(ps) : ps \in {qs \in SUBSET (1..Len(ListingReports)) :
                               Cardinality(qs) \in 1..MaxReports}}

OutputDir == << <<"o", "u", "t">> >>

\* report.target_path(output_dir) of the listing's Reports: target_path is a
\* pure function, and this table holds its value for each of them
ListingPaths ==
    [k \in DOMAIN ListingReports |-> target_path(ListingReports[k], OutputDir)]

TargetPathOf(report) ==
    ListingPaths[CHOOSE k \in DOMAIN ListingReports : ListingReports[k] = report]

\* the body the server holds for a Report's download_url, in chunks
Body(report) == [k \in 1..BodyChunks |-> <<report.download_url, k>>]

Workers == 1..Len(reports)

Exists(path) == path \in DOMAIN files

\* Path.parent and its parents up to the output directory
Parents(path) == {SubSeq(path, 1, k) : k \in Len(OutputDir)..(Len(path) - 1)}

Running == {i \in Workers : wpc[i] \in {"check", "request", "open", "write"}}
Finished == {i \in Workers : wpc[i] \in {"done", "failed"}}

Init ==
    /\ reports \in Selections
    /\ max_workers \in 1..MaxWorkers
    /\ overwrite \in BOOLEAN
    /\ dry_run \in BOOLEAN
    /\ files = <<>>
    /\ dirs = {}
    /\ mainpc = "start"
    /\ yielded = {}
    /\ saved_paths = <<>>
    /\ retval = NoPaths
    /\ wpc = [i \in Workers |-> "unsubmitted"]
    /\ wpath = [i \in Workers |-> NoPath]
    /\ wsent = [i \in Workers |-> 0]
    /\ fetched = [i \in Workers |-> 0]
    /\ wexc = [i \in Workers |-> "none"]
    /\ batch = "first"
    /\ prevRaised = FALSE
    /\ SanIdle
    /\ ListIdle

\* a plausible slip: the dry run lists only the files that are not there yet
DryRunPathsOfMissing ==
    SelectSeq([i \in Workers |-> TargetPathOf(reports[i])], LAMBDA p : ~Exists(p))

\* [report.target_path(output_dir) for report in reports]
DryRunPaths == [i \in Workers |-> TargetPathOf(reports[i])]

\* download_reports with dry_run: the output directory is made and the
\* target paths are returned
DryRun ==
    /\ mainpc = "start"
    /\ dry_run
    /\ dirs' = dirs \cup {OutputDir}
    /\ retval' = DryRunPaths
    /\ mainpc' = "returned"
    /\ UNCHANGED <<argVars, files, yielded, saved_paths, workerVars, batchVars,
                   sanVars, listVars>>

\* download_reports, live: the output directory is made and every Report is
\* submitted to the pool
Submit ==
    /\ mainpc = "start"
    /\ ~dry_run
    /\ dirs' = dirs \cup {OutputDir}
    /\ wpc' = [i \in Workers |-> "queued"]
    /\ mainpc' = "collect"
    /\ UNCHANGED <<argVars, files, yielded, saved_paths, retval,
                   wpath, wsent, fetched, wexc, batchVars, sanVars, listVars>>

\* a pool thread takes the next work item (they are taken in the order
\* submitted, while fewer than max_workers run) and _download_single starts:
\* the target path is computed and its parent directory made
Start(i) ==
    /\ wpc[i] = "queued"
    /\ \A j \in Workers : j < i => wpc[j] # "queued"
    /\ Cardinality(Running) < max_workers
    /\ LET target == TargetPathOf(reports[i])
       IN  /\ wpath' = [wpath EXCEPT ![i] = target]
           /\ dirs' = dirs \cup Parents(target)
    /\ wpc' = [wpc EXCEPT ![i] = "check"]
    /\ UNCHANGED <<argVars, files, mainVars, wsent, fetched, wexc, batchVars,
                   sanVars, listVars>>

\* a plausible slip: the existing file is never looked for
ShouldSkipNever(path) == FALSE

\* target_path.exists() and not overwrite
ShouldSkip(path) == Exists(path) /\ ~overwrite

\* the check for an existing file: the worker returns the path, or goes on
\* to fetch
CheckExisting(i) ==
    /\ wpc[i] = "check"
    /\ wpc' = [wpc EXCEPT ![i] = IF ShouldSkip(wpath[i]) THEN "done" ELSE "request"]
    /\ UNCHANGED <<argVars, fsVars, mainVars, wpath, wsent, fetched, wexc, batchVars,
                   sanVars, listVars>>

\* requests.get and raise_for_status: the transport fails, the status is not
\* a success, or the response is there to be streamed
Request(i) ==
    /\ wpc[i] = "request"
    /\ fetched' = [fetched EXCEPT ![i] = @ + 1]
    /\ \E outcome \in {"ok", "status", "transport"} :
          /\ wpc' = [wpc EXCEPT ![i] = IF outcome = "ok" THEN "open" ELSE "failed"]
          /\ wexc' = [wexc EXCEPT ![i] = CASE outcome = "ok" -> "none"
                                            [] outcome = "status" -> "DownloadError"
                                            [] OTHER -> "ConnectionError"]
    /\ UNCHANGED <<argVars, fsVars, mainVars, wpath, wsent, batchVars, sanVars, listVars>>

\* target_path.open("wb"): the file is created, or emptied
OpenFile(i) ==
    /\ wpc[i] = "open"
    /\ files' = (wpath[i] :> <<>>) @@ files
    /\ wsent' = [wsent EXCEPT ![i] = 0]
    /\ wpc' = [wpc EXCEPT ![i] = "write"]
    /\ UNCHANGED <<argVars, dirs, mainVars, wpath, fetched, wexc, batchVars,
                   sanVars, listVars>>

\* a chunk of zero bytes, what a gap in a file reads as
Hole == <<<<>>, 0>>

\* a write through a handle lands at the handle's own offset, here after the
\* k - 1 chunks written through it, whatever the file has got to hold since
WriteAt(content, k, chunk) ==
    [j \in 1..Max(Len(content), k) |->
        IF j = k THEN chunk
        ELSE IF j <= Len(content) THEN content[j]
        ELSE Hole]

\* handle.write(chunk) for the next chunk of the body
WriteChunk(i) ==
    /\ wpc[i] = "write"
    /\ wsent[i] < BodyChunks
    /\ files' = [files EXCEPT ![wpath[i]] =
                    WriteAt(@, wsent[i] + 1, Body(reports[i])[wsent[i] + 1])]
    /\ wsent' = [wsent EXCEPT ![i] = @ + 1]
    /\ UNCHANGED <<argVars, dirs, mainVars, wpc, wpath, fetched, wexc, batchVars,
                   sanVars, listVars>>

\* iter_content raises: the transport fails while the body is streamed; the
\* file is closed with what was written
StreamFails(i) ==
    /\ wpc[i] = "write"
    /\ wsent[i] < BodyChunks
    /\ wpc' = [wpc EXCEPT ![i] = "failed"]
    /\ wexc' = [wexc EXCEPT ![i] = "ConnectionError"]
    /\ UNCHANGED <<argVars, fsVars, mainVars, wpath, wsent, fetched, batchVars,
                   sanVars, listVars>>

\* the body is written: the file is closed and the path returned
Finish(i) ==
    /\ wpc[i] = "write"
    /\ wsent[i] = BodyChunks
    /\ wpc' = [wpc EXCEPT ![i] = "done"]
    /\ UNCHANGED <<argVars, fsVars, mainVars, wpath, wsent, fetched, wexc, batchVars,
                   sanVars, listVars>>

\* a plausible slip: the path replaces the list instead of being appended
CollectLastOnly(i) ==
    /\ mainpc = "collect"
    /\ i \notin yielded
    /\ wpc[i] = "done"
    /\ yielded' = yielded \cup {i}
    /\ saved_paths' = <<wpath[i]>>
    /\ UNCHANGED <<argVars, fsVars, mainpc, retval, workerVars, batchVars,
                   sanVars, listVars>>

\* as_completed yields a future that returned: its path is appended
Collect(i) ==
    /\ mainpc = "collect"
    /\ i \notin yielded
    /\ wpc[i] = "done"
    /\ yielded' = yielded \cup {i}
    /\ saved_paths' = Append(saved_paths, wpath[i])
    /\ UNCHANGED <<argVars, fsVars, mainpc, retval, workerVars, batchVars,
                   sanVars, listVars>>

\* as_completed yields a future that raised: the error is logged and raised
\* again, and the executor's exit waits for the pool
CollectFailure(i) ==
    /\ mainpc = "collect"
    /\ i \notin yielded
    /\ wpc[i] = "failed"
    /\ yielded' = yielded \cup {i}
    /\ mainpc' = "shutdown"
    /\ UNCHANGED <<argVars, fsVars, saved_paths, retval, workerVars, batchVars,
                   sanVars, listVars>>

\* every future was yielded: saved_paths is returned
Return ==
    /\ mainpc = "collect"
    /\ yielded = Workers
    /\ retval' = saved_paths
    /\ mainpc' = "returned"
    /\ UNCHANGED <<argVars, fsVars, yielded, saved_paths, workerVars, batchVars,
                   sanVars, listVars>>

\* shutdown(wait=True) has joined the pool, every submitted call having run:
\* the error reaches the caller
Propagate ==
    /\ mainpc = "shutdown"
    /\ Finished = Workers
    /\ mainpc' = "raised"
    /\ UNCHANGED <<argVars, fsVars, yielded, saved_paths, retval, workerVars, batchVars,
                   sanVars, listVars>>

\* the caller runs download_reports again on the same Reports and output
\* directory, with the same overwrite and max_workers, dry or live
Rerun ==
    /\ batch = "first"
    /\ mainpc \in {"returned", "raised"}
    /\ batch' = "rerun"
    /\ prevRaised' = (mainpc = "raised")
    /\ dry_run' \in BOOLEAN
    /\ mainpc' = "start"
    /\ yielded' = {}
    /\ saved_paths' = <<>>
    /\ retval' = NoPaths
    /\ wpc' = [i \in Workers |-> "unsubmitted"]
    /\ wpath' = [i \in Workers |-> NoPath]
    /\ wsent' = [i \in Workers |-> 0]
    /\ fetched' = [i \in Workers |-> 0]
    /\ wexc' = [i \in Workers |-> "none"]
    /\ UNCHANGED <<reports, max_workers, overwrite, fsVars, sanVars, listVars>>

WorkerStep(i) ==
    \/ Start(i)
    \/ CheckExisting(i)
    \/ Request(i)
    \/ OpenFile(i)
    \/ WriteChunk(i)
    \/ StreamFails(i)
    \/ Finish(i)

\* a step of the batch that is running
BatchStep ==
    \/ DryRun
    \/ Submit
    \/ \E i \in Workers : WorkerStep(i)
    \/ \E i \in Workers : Collect(i)
    \/ \E i \in Workers : CollectFailure(i)
    \/ Return
    \/ Propagate

Next == BatchStep \/ Rerun

Spec == Init /\ [][Next]_vars

\* the pool's threads and the caller's thread keep running, and a request
\* ends (by its timeout at the latest): a step of the batch that can be
\* taken is taken in the end
FairSpec == Init /\ [][Next]_vars /\ WF_vars(BatchStep)

(***************************************************************************)
(* Properties of the sanitizer                                             *)
(***************************************************************************)

\* C5: the UTF-8 encoding of sanitize_filename(name) is at most
\* MAX_FILENAME_BYTES bytes long, for every name
C5_WithinMaxBytes == sanPhase # "input" => Utf8Len(out1) <= MAX_FILENAME_BYTES

\* C8: sanitize_filename is idempotent: applied to its own result it returns
\* that result
C8_Idempotent == sanPhase = "twice" => out2 = out1

\* C8's case: a name that was truncated, sanitized twice
C8_TruncatedTwice ==
    /\ sanPhase = "twice"
    /\ Utf8Len(Normalized(name)) > MAX_FILENAME_BYTES
    /\ out1 # Normalized(name)

(***************************************************************************)
(* Properties of the listing pipeline                                      *)
(***************************************************************************)

HasHref(hrefs) == \E i \in 1..Len(hrefs) : Truthy(hrefs[i])

\* a row as the claim has it valid: four cells, an integer serial, and some
\* anchor with a non-empty href in the link cell
RowValidAnyAnchor(cells) ==
    /\ Len(cells) >= 4
    /\ IsIntText(GetText(cells[1], <<>>))
    /\ HasHref(cells[4].anchors)

\* a row valid by its first anchor: four cells, an integer serial, and a
\* first anchor in the link cell with a non-empty href
RowValidFirstAnchor(cells) ==
    /\ Len(cells) >= 4
    /\ IsIntText(GetText(cells[1], <<>>))
    /\ cells[4].anchors # <<>>
    /\ Truthy(cells[4].anchors[1])

\* the Reports are those of the rows `valid`, in order, each the Report the
\* row yields when parsed alone, with the row's serial and first href
ParsedAre(valid) ==
    /\ Len(parsed) = Len(valid)
    /\ \A k \in 1..Len(valid) :
          /\ <<parsed[k]>> = parse_reports(options, <<valid[k]>>)
          /\ parsed[k].serial = IntValue(GetText(valid[k][1], <<>>))
          /\ parsed[k].download_url = valid[k][4].anchors[1]

\* C6 as stated: one Report per row that has four cells, an integer serial
\* and any anchor with a non-empty href, in document order, nothing for the
\* other rows
C6_AnyAnchorRows ==
    listPhase # "input" => ParsedAre(SelectSeq(rows, RowValidAnyAnchor))

\* C6 amended: one Report per row that has four cells, an integer serial and
\* a first anchor with a non-empty href, in document order, nothing for the
\* other rows, whose dropping leaves the other rows' Reports as they are
C6_FirstAnchorRows ==
    listPhase # "input" => ParsedAre(SelectSeq(rows, RowValidFirstAnchor))

\* C6's case: a dropped row is followed by a row that yields its Report
C6_DroppedThenKept ==
    /\ listPhase = "parsed"
    /\ Len(rows) = 2
    /\ ~RowValidFirstAnchor(rows[1])
    /\ Len(parsed) = 1

\* the claim's year predicate: the lower-cased codes and labels that are
\* not None meet the lower-cased tokens; no filter passes everything
YearPredicate(report) ==
    years = NoneList \/
    {Lower(v) : v \in {report.year_code, report.year_label} \ {None}}
        \cap {Lower(years[i]) : i \in 1..Len(years)} # {}

\* the claim's query predicate: the lower-cased query is in the lower-cased
\* title; no query passes everything
QueryPredicate(report) ==
    query = None \/ Contains(Lower(report.title), Lower(query))

BothPredicates(report) == YearPredicate(report) /\ QueryPredicate(report)

\* C7: filter_reports returns the Reports that satisfy both predicates, in
\* their original order
C7_FilterIsSubsequence ==
    listPhase = "filtered" => filtered = SelectSeq(parsed, BothPredicates)

\* C7's case: a label used as the year token and a query, some Reports
\* kept and some not
C7_LabelTokenAndQuery ==
    /\ listPhase = "filtered"
    /\ years = << <<"1", "0", "-", "x">> >>
    /\ query = <<"A", "B">>
    /\ Len(filtered) >= 1
    /\ Len(filtered) < Len(parsed)

(***************************************************************************)
(* Properties of download_reports                                          *)
(***************************************************************************)

Live == mainpc \notin {"idle"} /\ ~dry_run

\* C1: with overwrite off, a worker that finds its target path existing when
\* it checks returns that path, having sent no request, and the check leaves
\* every file as it is
C1_ExistingFileSkipped ==
    [][\A i \in Workers :
          (wpc[i] = "check" /\ wpc'[i] # "check" /\ ~overwrite /\ Exists(wpath[i]))
          => /\ wpc'[i] = "done"
             /\ wpath'[i] = wpath[i]
             /\ fetched[i] = 0 /\ fetched'[i] = 0
             /\ files' = files]_vars

\* C1's case: in a re-run a worker has skipped its existing file while
\* another worker is writing
C1_SkippedBesideWriter ==
    /\ batch = "rerun" /\ ~overwrite /\ ~dry_run
    /\ \E i, j \in Workers :
          /\ wpc[i] = "done" /\ fetched[i] = 0 /\ Exists(wpath[i])
          /\ wpc[j] = "write"

\* C2: a dry run returns target_path(output_dir) of the i-th Report as its
\* i-th path, one for each Report, sends no request and writes no file; it
\* only makes the output directory
C2_DryRunProjection ==
    [][(mainpc = "start" /\ dry_run /\ mainpc' # "start")
       => /\ mainpc' = "returned"
          /\ Len(retval') = Len(reports)
          /\ \A i \in Workers : retval'[i] = TargetPathOf(reports[i])
          /\ files' = files
          /\ fetched' = fetched
          /\ dirs' = dirs \cup {OutputDir}]_vars

\* C2's case: a dry run of two Reports has returned, in an output directory
\* that holds a file of an earlier live batch
C2_DryRunAfterLive ==
    /\ dry_run /\ mainpc = "returned" /\ batch = "rerun"
    /\ Len(reports) = 2 /\ Len(retval) = 2
    /\ DOMAIN files # {}

WrittenWhole(j) ==
    /\ Exists(wpath[j])
    /\ files[wpath[j]] = Body(reports[j])

\* C3: once a download of a live batch has raised, download_reports returns
\* no list: the error reaches the caller, and then the file of every worker
\* that wrote its whole body is there with that body
C3_FailurePropagates ==
    Live =>
        /\ (\E i \in Workers : wpc[i] = "failed")
              => mainpc # "returned" /\ retval = NoPaths
        /\ mainpc = "raised"
              => \A j \in Workers :
                    (wpc[j] = "done" /\ fetched[j] > 0) => WrittenWhole(j)

\* C4: when the re-run of a batch that raised returns (overwrite off), every
\* Report's target file holds the whole body of its resource
C4_RerunCompletesFiles ==
    (batch = "rerun" /\ prevRaised /\ ~dry_run /\ ~overwrite /\ mainpc = "returned")
    => \A i \in Workers : WrittenWhole(i)

\* C9: in a live batch, no two workers whose Reports have distinct serials
\* have the same target path open for writing at once
C9_NoSharedOpenPath ==
    Live =>
        \A i, j \in Workers :
            (/\ i # j
             /\ reports[i].serial # reports[j].serial
             /\ wpc[i] = "write" /\ wpc[j] = "write")
            => wpath[i] # wpath[j]

IsPermutation(a, b) ==
    /\ Len(a) = Len(b)
    /\ \E f \in [1..Len(a) -> 1..Len(a)] :
          /\ \A i, j \in 1..Len(a) : i # j => f[i] # f[j]
          /\ \A i \in 1..Len(a) : a[i] = b[f[i]]

\* C10: a live batch that is collecting comes to return or to a download
\* that raised; when it returns, no download has raised and the list is a
\* permutation of the list a dry run returns, one path for each Report
C10_ReturnsPermutation ==
    /\ []((Live /\ mainpc = "returned")
            => /\ \A i \in Workers : wpc[i] = "done"
               /\ IsPermutation(retval, DryRunPaths))
    /\ ((Live /\ mainpc = "collect")
          ~> (mainpc = "returned" \/ \E i \in Workers : wpc[i] = "failed"))

\* C10's case: a live batch has returned the paths in another order than the
\* Reports', one file skipped and one fetched
C10_ReturnedOutOfOrder ==
    /\ Live /\ mainpc = "returned"
    /\ Len(retval) = 2
    /\ retval # DryRunPaths
    /\ \E i, j \in Workers : fetched[i] = 0 /\ fetched[j] > 0

====
